---- MODULE Spec2Model ----
(***************************************************************************)
(* Fleet control plane of the Voice AI Systems Guide, chapter 10:          *)
(*   - VoiceAIAutoScaler   (chapters/chapter10/examples/autoscaling_config.py) *)
(*   - GlobalLoadBalancer  (chapters/chapter10/examples/load_balancing.py)     *)
(* Percentages and latencies are modelled as integers; error_rate is held  *)
(* in thousandths (0.03 is 30).  The sample values used below were chosen  *)
(* so that Python's float product current_replicas * (metric / target)     *)
(* rounds up to the same integer as the exact quotient.                    *)
(***************************************************************************)
EXTENDS Integers, Sequences, FiniteSets, TLC

VARIABLES
    \* ---- VoiceAIAutoScaler ----
    asNow,             \* datetime.utcnow() as read by the autoscaler, minutes
    current_replicas,  \* self.current_replicas
    last_scale_time,   \* self.last_scale_time
    scaling_history,   \* self.scaling_history
    metrics_history,   \* self.metrics_collector.metrics_history
    current_metrics,   \* self.metrics_collector.current_metrics
    evalOutcome,       \* how the last evaluate_scaling call ended
    decision,          \* the ScalingDecision it returned
    evalPre,           \* the state the last evaluate_scaling call started from
    arrived,           \* every sample handed to update_metrics so far, in order
    \* ---- GlobalLoadBalancer ----
    lbNow,               \* datetime.utcnow() as read by the load balancer, seconds
    health_status,       \* Instance.health_status of every instance
    current_connections, \* Instance.current_connections of every instance
    sessions,            \* self.session_manager.sessions
    next_session,        \* the next fresh session id create_session draws
    current_strategy,    \* self.current_strategy
    round_robin_index,   \* self.round_robin_index
    lbMetrics,           \* self.metrics
    inflight,            \* the route_call coroutines suspended at their await
    lastRoute,           \* what the step just taken selected or returned
    rrRun,               \* the consecutive round-robin picks from one available list
    \* ---- perform_health_checks ----
    region_health,       \* Region.health_status of every registered region
    probe                \* how far the current probe cycle has come

scalerVars == <<asNow, current_replicas, last_scale_time, scaling_history,
                metrics_history, current_metrics, evalOutcome, decision, evalPre,
                arrived>>

lbVars == <<lbNow, health_status, current_connections, sessions, next_session,
            current_strategy, round_robin_index, lbMetrics, inflight, lastRoute,
            rrRun>>

probeVars == <<region_health, probe>>

vars == <<scalerVars, lbVars, probeVars>>

(***************************************************************************)
(* Bounds of the model                                                     *)
(***************************************************************************)
MaxTime == 11
MaxEvals == 3

\* minutes that can pass between two clock readings of one evaluate_scaling call
ClockDrift == {0, 1}

(***************************************************************************)
(* VoiceAIAutoScaler.__init__                                              *)
(***************************************************************************)
min_replicas == 2
max_replicas == 20
target_cpu_utilization == 70
target_memory_utilization == 80
max_concurrent_calls_per_replica == 50
max_latency_ms == 500
scale_cooldown_minutes == 5
max_history_size == 1000

MetricFields == <<"cpu_utilization", "memory_utilization", "concurrent_calls",
                  "stt_latency_ms", "tts_latency_ms", "error_rate">>

scale_up_thresholds ==
    [cpu_utilization |-> 80, memory_utilization |-> 85, concurrent_calls |-> 45,
     stt_latency_ms |-> 400, tts_latency_ms |-> 400, error_rate |-> 30]

scale_down_thresholds ==
    [cpu_utilization |-> 30, memory_utilization |-> 40, concurrent_calls |-> 10,
     stt_latency_ms |-> 200, tts_latency_ms |-> 200, error_rate |-> 10]

(***************************************************************************)
(* Metric samples fed to evaluate_scaling                                  *)
(***************************************************************************)
ScalingMetrics(cpu, mem, calls, stt, tts, err) ==
    [cpu_utilization |-> cpu, memory_utilization |-> mem, concurrent_calls |-> calls,
     stt_latency_ms |-> stt, tts_latency_ms |-> tts, error_rate |-> err]

ZeroMetrics == ScalingMetrics(0, 0, 0, 0, 0, 0)

Samples ==
    { ScalingMetrics(50, 60, 20, 300, 300, 20),    \* nothing crosses a threshold
      ScalingMetrics(20, 30, 5, 100, 100, 0),      \* every field below scale-down
      ScalingMetrics(95, 60, 60, 300, 300, 20),    \* cpu and calls above scale-up
      ScalingMetrics(50, 60, 48, 300, 300, 20),    \* calls above threshold, below limit
      ScalingMetrics(50, 60, 20, 300, 450, 50),    \* tts and error rate only
      ScalingMetrics(50, 90, 20, 300, 300, 20),    \* memory above scale-up
      ScalingMetrics(95, 30, 20, 300, 300, 20),    \* cpu above, memory below
      ScalingMetrics(50, 60, 20, 1000, 300, 20),   \* stt twice the limit
      ScalingMetrics(75, 60, 20, 5000, 300, 20) }  \* stt ten times the limit

(***************************************************************************)
(* should_scale_up / should_scale_down                                     *)
(* Both return a bare False from their early exits and a (bool, triggers)  *)
(* pair otherwise; "pair" records which of the two shapes was returned.    *)
(***************************************************************************)
BareFalse == [pair |-> FALSE, flag |-> FALSE, triggers |-> <<>>]
Pair(b, t) == [pair |-> TRUE, flag |-> b, triggers |-> t]

UpTriggers(metrics) ==
    SelectSeq(MetricFields, LAMBDA f : metrics[f] > scale_up_thresholds[f])

DownTriggers(metrics) ==
    SelectSeq(MetricFields, LAMBDA f : metrics[f] < scale_down_thresholds[f])

should_scale_up_NoCooldown(metrics, t) ==
    IF current_replicas >= max_replicas THEN BareFalse
    ELSE Pair(Len(UpTriggers(metrics)) > 0, UpTriggers(metrics))

should_scale_up_Sustained(metrics, t) ==
    IF t - last_scale_time < scale_cooldown_minutes THEN BareFalse
    ELSE IF current_replicas >= max_replicas THEN BareFalse
    ELSE Pair(/\ Len(UpTriggers(metrics)) > 0
              /\ \/ Len(metrics_history) = 0
                 \/ Len(UpTriggers(metrics_history[Len(metrics_history)])) > 0,
              UpTriggers(metrics))

should_scale_up_YieldsToDown(metrics, t) ==
    IF t - last_scale_time < scale_cooldown_minutes THEN BareFalse
    ELSE IF current_replicas >= max_replicas THEN BareFalse
    ELSE Pair(Len(UpTriggers(metrics)) > 0 /\ Len(DownTriggers(metrics)) = 0,
              UpTriggers(metrics))

should_scale_up(metrics, t) ==
    IF t - last_scale_time < scale_cooldown_minutes THEN BareFalse
    ELSE IF current_replicas >= max_replicas THEN BareFalse
    ELSE Pair(Len(UpTriggers(metrics)) > 0, UpTriggers(metrics))

should_scale_down(metrics, t) ==
    IF t - last_scale_time < scale_cooldown_minutes THEN BareFalse
    ELSE IF current_replicas <= min_replicas THEN BareFalse
    ELSE Pair(Len(DownTriggers(metrics)) > 0, DownTriggers(metrics))

(***************************************************************************)
(* calculate_target_replicas                                               *)
(***************************************************************************)
Max2(a, b) == IF a >= b THEN a ELSE b
Min2(a, b) == IF a <= b THEN a ELSE b

\* math.ceil(n / d) for n >= 0, d > 0
CeilDiv(n, d) == (n + d - 1) \div d

ScaleFactors_NoLatency(metrics) ==
    { q \in { <<metrics.cpu_utilization, target_cpu_utilization>>,
              <<metrics.memory_utilization, target_memory_utilization>>,
              <<metrics.concurrent_calls, max_concurrent_calls_per_replica>> } :
        q[1] > q[2] }

\* the scale factors as <<metric, target>> quotients
ScaleFactors(metrics) ==
    { q \in { <<metrics.cpu_utilization, target_cpu_utilization>>,
              <<metrics.memory_utilization, target_memory_utilization>>,
              <<metrics.concurrent_calls, max_concurrent_calls_per_replica>>,
              <<metrics.stt_latency_ms, max_latency_ms>> } : q[1] > q[2] }

\* max(scale_factors)
MaxFactor(fs) == CHOOSE q \in fs : \A r \in fs : q[1] * r[2] >= r[1] * q[2]

ScaleUpRaw(metrics) ==
    IF ScaleFactors(metrics) # {}
    THEN LET f == MaxFactor(ScaleFactors(metrics))
         IN  CeilDiv(current_replicas * f[1], f[2])
    ELSE current_replicas + 1

calculate_target_replicas_NoClamp(metrics, action) ==
    IF action = "scale_up" THEN ScaleUpRaw(metrics)
    ELSE Max2(min_replicas, current_replicas - 1)

calculate_target_replicas_Floor(metrics, action) ==
    LET raw == IF action = "scale_up"
               THEN IF ScaleFactors(metrics) # {}
                    THEN LET f == MaxFactor(ScaleFactors(metrics))
                         IN  (current_replicas * f[1]) \div f[2]
                    ELSE current_replicas + 1
               ELSE Max2(min_replicas, current_replicas - 1)
    IN  Max2(min_replicas, Min2(max_replicas, raw))

calculate_target_replicas_Halving(metrics, action) ==
    LET raw == IF action = "scale_up" THEN ScaleUpRaw(metrics)
               ELSE Max2(min_replicas, current_replicas \div 2)
    IN  Max2(min_replicas, Min2(max_replicas, raw))

calculate_target_replicas(metrics, action) ==
    LET raw == IF action = "scale_up" THEN ScaleUpRaw(metrics)
               ELSE Max2(min_replicas, current_replicas - 1)
    IN  Max2(min_replicas, Min2(max_replicas, raw))

(***************************************************************************)
(* VoiceAIMetricsCollector.update_metrics                                  *)
(***************************************************************************)
update_metrics_PopNewest(history, metrics) ==
    LET appended == Append(history, metrics)
    IN  IF Len(appended) > max_history_size THEN history ELSE appended

update_metrics(history, metrics) ==
    LET appended == Append(history, metrics)
    IN  IF Len(appended) > max_history_size THEN Tail(appended) ELSE appended

(***************************************************************************)
(* evaluate_scaling                                                        *)
(***************************************************************************)
ScalingDecision(action, reason, cur, target, metrics, ts) ==
    [action |-> action, reason |-> reason, current_replicas |-> cur,
     target_replicas |-> target, metrics |-> metrics, timestamp |-> ts]

NoDecision == ScalingDecision("none", <<>>, 0, 0, ZeroMetrics, 0)

NoCall == [current_replicas |-> 0, last_scale_time |-> 0, now |-> 0, actions |-> 0]

Scale_NoStamp(metrics, action, reason, tStamp, tSet) ==
    LET target == calculate_target_replicas(metrics, action)
        d == ScalingDecision(action, reason, current_replicas, target, metrics, tStamp)
    IN  /\ current_replicas' = target
        /\ UNCHANGED last_scale_time
        /\ scaling_history' = Append(scaling_history, d)
        /\ decision' = d
        /\ evalOutcome' = "returned"
        /\ asNow' = tSet

\* the call scales: the decision is applied, stamped and recorded
Scale(metrics, action, reason, tStamp, tSet) ==
    LET target == calculate_target_replicas(metrics, action)
        d == ScalingDecision(action, reason, current_replicas, target, metrics, tStamp)
    IN  /\ current_replicas' = target
        /\ last_scale_time' = tSet
        /\ scaling_history' = Append(scaling_history, d)
        /\ decision' = d
        /\ evalOutcome' = "returned"
        /\ asNow' = tSet

\* unpacking a bare False into (flag, triggers) raises TypeError
RaiseTypeError(t) ==
    /\ evalOutcome' = "TypeError"
    /\ decision' = NoDecision
    /\ asNow' = t
    /\ UNCHANGED <<current_replicas, last_scale_time, scaling_history>>

Evaluate(metrics, a, b) ==
    /\ Len(arrived) < MaxEvals
    /\ asNow + a + b <= MaxTime
    /\ metrics_history' = update_metrics(metrics_history, metrics)
    /\ arrived' = Append(arrived, metrics)
    /\ current_metrics' = metrics
    /\ evalPre' = [current_replicas |-> current_replicas,
                   last_scale_time |-> last_scale_time, now |-> asNow,
                   actions |-> Len(scaling_history)]
    /\ LET up == should_scale_up(metrics, asNow)
       IN  IF ~up.pair THEN RaiseTypeError(asNow)
           ELSE IF up.flag
           THEN Scale(metrics, "scale_up", up.triggers, asNow + a, asNow + a + b)
           ELSE LET down == should_scale_down(metrics, asNow + a)
                IN  IF ~down.pair THEN RaiseTypeError(asNow + a)
                    ELSE IF down.flag
                    THEN Scale(metrics, "scale_down", down.triggers,
                               asNow + a, asNow + a + b)
                    ELSE /\ decision' = ScalingDecision("maintain",
                                            <<"All metrics within acceptable ranges">>,
                                            current_replicas, current_replicas,
                                            metrics, asNow + a)
                         /\ evalOutcome' = "returned"
                         /\ asNow' = asNow + a
                         /\ UNCHANGED <<current_replicas, last_scale_time,
                                        scaling_history>>

EvaluateScaling ==
    /\ \E metrics \in Samples : \E a, b \in ClockDrift : Evaluate(metrics, a, b)
    /\ UNCHANGED <<lbVars, probeVars>>

\* time passes between two calls
ScalerTick ==
    /\ asNow < MaxTime
    /\ asNow' = asNow + 1
    /\ UNCHANGED <<current_replicas, last_scale_time, scaling_history,
                   metrics_history, current_metrics, evalOutcome, decision, evalPre,
                   arrived>>
    /\ UNCHANGED <<lbVars, probeVars>>

ScalerInit ==
    /\ asNow = 0
    /\ current_replicas = min_replicas
    /\ last_scale_time = 0
    /\ scaling_history = <<>>
    /\ metrics_history = <<>>
    /\ current_metrics = ZeroMetrics
    /\ evalOutcome = "none"
    /\ decision = NoDecision
    /\ evalPre = NoCall
    /\ arrived = <<>>

(***************************************************************************)
(* A collector whose history is about to overflow: the autoscaler was fed  *)
(* all-zero samples at construction time, each of which update_metrics     *)
(* stored before the cooldown check ended the call                         *)
(***************************************************************************)
\* the history after k such calls
Prefill(k) == [j \in 1..k |-> ZeroMetrics]

PrefillSizes == {max_history_size - 2, max_history_size}

WindowSamples ==
    { ScalingMetrics(50, 60, 20, 300, 300, 20),
      ScalingMetrics(20, 30, 5, 100, 100, 0),
      ScalingMetrics(95, 60, 60, 300, 300, 20) }

WindowInit ==
    /\ asNow = 0
    /\ current_replicas = min_replicas
    /\ last_scale_time = 0
    /\ scaling_history = <<>>
    /\ \E k \in PrefillSizes : metrics_history = Prefill(k)
    /\ current_metrics = ZeroMetrics
    /\ evalOutcome = "TypeError"
    /\ decision = NoDecision
    /\ evalPre = [current_replicas |-> min_replicas, last_scale_time |-> 0,
                  now |-> 0, actions |-> 0]
    /\ arrived = <<>>

EvaluateWindow ==
    /\ \E metrics \in WindowSamples : Evaluate(metrics, 0, 0)
    /\ UNCHANGED <<lbVars, probeVars>>

(***************************************************************************)
(* GlobalLoadBalancer: the fleet                                           *)
(* Three instances in dictionary (insertion) order; the third one sits in  *)
(* a region that was never passed to add_region.                           *)
(***************************************************************************)
MaxRoutes == 2
MaxTicks == 2
MaxRRRoutes == 6

\* self.instances, in insertion order
InstanceOrder == <<1, 2, 3>>
NumInstances == Len(InstanceOrder)

session_timeout == 3600
max_connections == 100
ProcessingTimeMs == 200

Instances == 1..NumInstances
Slots == 1..MaxRoutes

\* no instance / no session id (Python's None)
None == 0
\* a session id the store never issued
StrangerSession == -1

Regions == {"us-east-1", "us-west-2"}
RegionNames == <<"us-east-1", "us-west-2", "eu-west-1">>
RegionOf(i) == RegionNames[((i - 1) % Len(RegionNames)) + 1]
RegionLatency(r) == IF r = "us-east-1" THEN 50 ELSE 80

Strategies == {"round_robin", "least_connections", "weighted_round_robin",
               "geographic", "session_aware"}

(***************************************************************************)
(* HealthChecker.check_instance_health, score in hundredths                *)
(***************************************************************************)
UtilLevels == {50, 80, 85, 90, 95}
Jitters == {-5, 0, 5}

InstanceScore(cpu, mem, jitter) ==
    100 - (IF cpu > 90 THEN 40 ELSE IF cpu > 80 THEN 20 ELSE 0)
        - (IF mem > 90 THEN 30 ELSE IF mem > 80 THEN 10 ELSE 0)
        + jitter

StatusOf_Inclusive(score) ==
    IF score >= 80 THEN "healthy"
    ELSE IF score >= 50 THEN "degraded"
    ELSE "unhealthy"

StatusOf(score) ==
    IF score > 80 THEN "healthy"
    ELSE IF score > 50 THEN "degraded"
    ELSE "unhealthy"

\* every status a probe can write
ProbeResults ==
    { StatusOf(InstanceScore(cpu, mem, jitter)) :
        cpu \in UtilLevels, mem \in UtilLevels, jitter \in Jitters }

(***************************************************************************)
(* SessionManager                                                          *)
(***************************************************************************)
\* "origin" keeps the instance the session was created on
Session(instance_id, t) ==
    [instance_id |-> instance_id, last_activity |-> t, conversation |-> FALSE,
     origin |-> instance_id]

\* create_session: a fresh id bound to instance_id
create_session_Unbound(store, sid, instance_id, t) ==
    [s \in DOMAIN store \cup {sid} |->
        IF s = sid THEN Session(None, t) ELSE store[s]]

create_session(store, sid, instance_id, t) ==
    [s \in DOMAIN store \cup {sid} |->
        IF s = sid THEN Session(instance_id, t) ELSE store[s]]

\* get_session finds the session and it has not timed out
SessionLive(store, sid, t) ==
    /\ sid \in DOMAIN store
    /\ t - store[sid].last_activity < session_timeout

\* get_session refreshes last_activity of the session it returns
SessionsAfterGet(store, sid, t) ==
    IF SessionLive(store, sid, t)
    THEN [store EXCEPT ![sid].last_activity = t]
    ELSE store

\* what self.sessions and get_session hold for the session id of a request:
\* no id sent, an id that is not a key of self.sessions, a session
\* get_session returns, or one it reports as timed out: idle for longer than
\* session_timeout ("expired") or for exactly session_timeout ("lapsed")
Lookup(store, sid, t) ==
    IF sid = None THEN "absent"
    ELSE IF sid \notin DOMAIN store THEN "unknown"
    ELSE IF SessionLive(store, sid, t) THEN "live"
    ELSE IF t - store[sid].last_activity > session_timeout THEN "expired"
    ELSE "lapsed"

get_instance_for_session(store, sid, t) ==
    IF SessionLive(store, sid, t) THEN store[sid].instance_id ELSE None

\* update_session as route_call uses it: the conversation history is replaced
update_session(store, sid, t) ==
    IF sid \in DOMAIN store
    THEN [store EXCEPT ![sid].conversation = TRUE, ![sid].last_activity = t]
    ELSE store

cleanup_expired_sessions(store, t) ==
    [s \in {x \in DOMAIN store : ~(t - store[x].last_activity > session_timeout)}
        |-> store[s]]

(***************************************************************************)
(* Selection strategies                                                    *)
(***************************************************************************)
InSeq(x, seq) == \E j \in 1..Len(seq) : seq[j] = x

get_available_instances_All(health) == InstanceOrder

get_available_instances(health) ==
    SelectSeq(InstanceOrder, LAMBDA i : health[i] \in {"healthy", "degraded"})

_round_robin_Stuck(available, index) == available[1]

_round_robin_IncrementFirst(available, index) ==
    available[((index + 1) % Len(available)) + 1]

_round_robin(available, index) == available[(index % Len(available)) + 1]

\* min(available, key=current_connections): the first of the minimal ones
_least_connections(available, conns) ==
    available[CHOOSE j \in 1..Len(available) :
        /\ \A k \in 1..Len(available) : conns[available[j]] <= conns[available[k]]
        /\ \A k \in 1..(j - 1) : conns[available[k]] > conns[available[j]]]

\* random_value is drawn from [0, total_weight]; every weight is max_connections
WeightedDraws(available) == {max_connections * j : j \in 0..Len(available)}

_weighted_round_robin(available, random_value) ==
    IF max_connections * Len(available) = 0 THEN available[1]
    ELSE available[CHOOSE j \in 1..Len(available) :
            /\ random_value <= max_connections * j
            /\ \A k \in 1..(j - 1) : ~(random_value <= max_connections * k)]

\* _geographic stores its scores in a dict keyed by the Instance objects, which
\* are unhashable (a dataclass with eq and without frozen): scoring the first
\* available instance of a registered region raises TypeError.  Only when no
\* available instance has a registered region is available[0] returned.
GeographicRaises(available) ==
    \E j \in 1..Len(available) : RegionOf(available[j]) \in Regions

_geographic(available) == available[1]

_session_aware_Ignore(available, session_id, store, health, conns, t) ==
    _least_connections(available, conns)

_session_aware(available, session_id, store, health, conns, t) ==
    LET instance_id == get_instance_for_session(store, session_id, t)
    IN  IF /\ session_id # None
           /\ instance_id # None
           /\ instance_id \in Instances
           /\ InSeq(instance_id, available)
           /\ health[instance_id] = "healthy"
        THEN instance_id
        ELSE _least_connections(available, conns)

(***************************************************************************)
(* route_call                                                              *)
(***************************************************************************)
\* a route_call suspended at its await: the locals it resumes with, and
\* three observations made when it selected
Call(state, sid, inst, failover, overlapped, lookup) ==
    [state |-> state, session_id |-> sid, instance_id |-> inst,
     failover |-> failover, overlapped |-> overlapped, lookup |-> lookup]

IdleCall == Call("idle", None, None, FALSE, FALSE, "absent")

\* the fleet as a call sees it when it selects: the available list, the live
\* binding of the request's session and the instance it was created on, the
\* status of both and of the selected instance, and the least-loaded instance
Seen(available, bound, origin, selected) ==
    [available |-> available,
     bound_instance |-> bound,
     bound_health |-> IF bound = None THEN "" ELSE health_status[bound],
     origin_instance |-> origin,
     origin_health |-> IF origin = None THEN "" ELSE health_status[origin],
     selected_health |-> IF selected = None THEN "" ELSE health_status[selected],
     least_instance |-> IF Len(available) = 0 THEN None
                        ELSE _least_connections(available, current_connections)]

NothingSeen == [available |-> <<>>, bound_instance |-> None, bound_health |-> "",
                origin_instance |-> None, origin_health |-> "",
                selected_health |-> "", least_instance |-> None]

\* state is "dispatched" (an instance was selected, the call awaits),
\* "completed" (route_call returned success), "failed" (route_call returned
\* a failure result) or "raised" (an exception left route_call)
RouteRec(state, success, error, req, call, strategy, seen, binding) ==
    [state |-> state, success |-> success, error |-> error,
     request_session_id |-> req, session_id |-> call.session_id,
     instance_id |-> call.instance_id, strategy_used |-> strategy,
     failover |-> call.failover, overlapped |-> call.overlapped,
     lookup |-> call.lookup,
     seen |-> seen,
     \* the store's binding of session_id when the call returned
     binding_after |-> binding]

NoRoute == RouteRec("none", FALSE, "", None, IdleCall, "", NothingSeen, None)

\* the exception the body of route_call raises before it selects, "" if none
RouteError(available, strategy) ==
    IF Len(available) = 0 THEN "No healthy instances available"
    ELSE IF strategy = "geographic" /\ GeographicRaises(available)
    THEN "unhashable type: 'Instance'"
    ELSE ""

\* except Exception as e: the error is returned to the caller
HandleException_Reraise(error, req, strategy, available) ==
    RouteRec("raised", FALSE, error, req, IdleCall, strategy,
             Seen(available, None, None, None), None)

HandleException(error, req, strategy, available) ==
    RouteRec("failed", FALSE, error, req, IdleCall, strategy,
             Seen(available, None, None, None), None)

SelectInstance(available, req, random_value) ==
    CASE current_strategy = "round_robin" ->
            _round_robin(available, round_robin_index)
      [] current_strategy = "least_connections" ->
            _least_connections(available, current_connections)
      [] current_strategy = "weighted_round_robin" ->
            _weighted_round_robin(available, random_value)
      [] current_strategy = "geographic" ->
            _geographic(available)
      [] OTHER ->
            _session_aware(available, req, sessions, health_status,
                           current_connections, lbNow)

BumpRegion(counts, i) ==
    IF RegionOf(i) \in Regions
    THEN [counts EXCEPT ![RegionOf(i)] = @ + 1]
    ELSE counts

\* the picks of consecutive round-robin calls that saw the same available list
NoRun == [available |-> <<>>, picks |-> <<>>]

RecordPick(run, available, i) ==
    IF run.available = available
    THEN [run EXCEPT !.picks = Append(@, i)]
    ELSE [available |-> available, picks |-> <<i>>]

Acquire_Decrement(n) == n - 1

Acquire(n) == n + 1

Release_Leak(n) == n

Release(n) == Max2(0, n - 1)

\* min(1.0, error_rate + 0.01), in hundredths
BumpErrorRate_Unbounded(rate) == rate + 1

BumpErrorRate(rate) == Min2(100, rate + 1)

\* route_call up to its await: lines 317-358, or all of it when it fails
Dispatch(c, req, random_value) ==
    LET available == get_available_instances(health_status)
        error == RouteError(available, current_strategy)
    IN  /\ inflight[c].state = "idle"
        /\ IF error # ""
           THEN /\ lastRoute' = HandleException(error, req, current_strategy, available)
                /\ lbMetrics' = [lbMetrics EXCEPT !.error_rate = BumpErrorRate(@)]
                /\ rrRun' = NoRun
                /\ UNCHANGED <<current_connections, sessions, next_session,
                               round_robin_index, inflight>>
           ELSE LET selected == SelectInstance(available, req, random_value)
                    bound == IF req = None THEN None
                             ELSE get_instance_for_session(sessions, req, lbNow)
                    origin == IF bound = None THEN None ELSE sessions[req].origin
                    afterGet == IF current_strategy = "session_aware" /\ req # None
                                THEN SessionsAfterGet(sessions, req, lbNow)
                                ELSE sessions
                    session_id == IF req = None THEN next_session ELSE req
                    call == Call("processing", session_id, selected,
                                 /\ current_strategy = "session_aware"
                                 /\ bound # None
                                 /\ health_status[bound] = "unhealthy",
                                 \E o \in Slots :
                                     /\ inflight[o].state = "processing"
                                     /\ inflight[o].instance_id = selected,
                                 Lookup(sessions, req, lbNow))
                IN  /\ sessions' = IF req = None
                                   THEN create_session(afterGet, next_session,
                                                       selected, lbNow)
                                   ELSE afterGet
                    /\ next_session' = IF req = None THEN next_session + 1
                                       ELSE next_session
                    /\ round_robin_index' = IF current_strategy = "round_robin"
                                            THEN round_robin_index + 1
                                            ELSE round_robin_index
                    /\ rrRun' = IF current_strategy = "round_robin"
                                THEN RecordPick(rrRun, available, selected)
                                ELSE NoRun
                    /\ current_connections' =
                          [current_connections EXCEPT ![selected] = Acquire(@)]
                    /\ lbMetrics' =
                          [lbMetrics EXCEPT
                              !.total_requests = @ + 1,
                              !.requests_per_region = BumpRegion(@, selected)]
                    /\ inflight' = [inflight EXCEPT ![c] = call]
                    /\ lastRoute' = RouteRec("dispatched", FALSE, "", req, call,
                                             current_strategy,
                                             Seen(available, bound, origin, selected),
                                             None)
        /\ UNCHANGED <<lbNow, health_status, current_strategy>>

Complete_HealthChecked(c) ==
    LET call == inflight[c]
        store == update_session(sessions, call.session_id, lbNow)
        gone == health_status[call.instance_id] = "unhealthy"
    IN  /\ call.state = "processing"
        /\ lbMetrics' = IF gone
                        THEN [lbMetrics EXCEPT !.error_rate = BumpErrorRate(@)]
                        ELSE [lbMetrics EXCEPT !.average_latency =
                                [num |-> @.num + ProcessingTimeMs * (2 ^ @.halvings),
                                 halvings |-> @.halvings + 1]]
        /\ sessions' = IF gone THEN sessions ELSE store
        /\ current_connections' =
              IF gone THEN current_connections
              ELSE [current_connections EXCEPT ![call.instance_id] = Release(@)]
        /\ lastRoute' = RouteRec(IF gone THEN "failed" ELSE "completed", ~gone,
                                 IF gone THEN "Instance unavailable" ELSE "",
                                 None, call, current_strategy, NothingSeen,
                                 IF call.session_id \in DOMAIN store
                                 THEN store[call.session_id].instance_id ELSE None)
        /\ inflight' = [inflight EXCEPT ![c] = IdleCall]
        /\ UNCHANGED <<lbNow, health_status, next_session, current_strategy,
                       round_robin_index, rrRun>>

\* route_call after its await: lines 360-384
Complete(c) ==
    LET call == inflight[c]
        store == update_session(sessions, call.session_id, lbNow)
    IN  /\ call.state = "processing"
        /\ lbMetrics' = [lbMetrics EXCEPT !.average_latency =
                            [num |-> @.num + ProcessingTimeMs * (2 ^ @.halvings),
                             halvings |-> @.halvings + 1]]
        /\ sessions' = store
        /\ current_connections' =
              [current_connections EXCEPT ![call.instance_id] = Release(@)]
        /\ lastRoute' = RouteRec("completed", TRUE, "", None, call, current_strategy,
                                 NothingSeen,
                                 IF call.session_id \in DOMAIN store
                                 THEN store[call.session_id].instance_id ELSE None)
        /\ inflight' = [inflight EXCEPT ![c] = IdleCall]
        /\ UNCHANGED <<lbNow, health_status, next_session, current_strategy,
                       round_robin_index, rrRun>>

\* the task running route_call is cancelled while it awaits (line 358):
\* CancelledError is a BaseException, so "except Exception" does not catch it
\* and it leaves route_call with nothing after the await executed
Cancel(c) ==
    LET call == inflight[c]
    IN  /\ call.state = "processing"
        /\ lastRoute' = RouteRec("raised", FALSE, "CancelledError", None, call,
                                 current_strategy, NothingSeen,
                                 IF call.session_id \in DOMAIN sessions
                                 THEN sessions[call.session_id].instance_id ELSE None)
        /\ inflight' = [inflight EXCEPT ![c] = IdleCall]
        /\ UNCHANGED <<lbNow, health_status, current_connections, sessions,
                       next_session, current_strategy, round_robin_index,
                       lbMetrics, rrRun>>

\* the session ids a caller can send: none, one it was given, one never issued
RequestSessions == {None, StrangerSession} \cup DOMAIN sessions

\* the lowest free coroutine slot
FreeSlot(c) == /\ inflight[c].state = "idle"
               /\ \A o \in 1..(c - 1) : inflight[o].state # "idle"

\* route_call has been called fewer than limit times
CallsBelow(limit) == lbMetrics.total_requests + lbMetrics.error_rate < limit

RouteCall ==
    /\ CallsBelow(MaxRoutes)
    /\ \E c \in Slots, req \in RequestSessions :
          /\ FreeSlot(c)
          /\ \E random_value \in (IF current_strategy = "weighted_round_robin"
                                  THEN WeightedDraws(get_available_instances(health_status))
                                  ELSE {0}) :
                Dispatch(c, req, random_value)
    /\ UNCHANGED <<scalerVars, probeVars>>

RouteComplete ==
    /\ \E c \in Slots : Complete(c)
    /\ UNCHANGED <<scalerVars, probeVars>>

RouteCancel ==
    /\ \E c \in Slots : Cancel(c)
    /\ UNCHANGED <<scalerVars, probeVars>>

\* one probe of perform_health_checks; the utilisation fields are whatever
\* the instance's owner last wrote into them
CheckInstanceHealth ==
    /\ \E i \in Instances : \E status \in ProbeResults \ {health_status[i]} :
          health_status' = [health_status EXCEPT ![i] = status]
    /\ lastRoute' = NoRoute
    /\ UNCHANGED <<lbNow, current_connections, sessions, next_session,
                   current_strategy, round_robin_index, lbMetrics, inflight, rrRun>>
    /\ UNCHANGED <<scalerVars, probeVars>>

\* load_balancer.current_strategy = strategy
SetStrategy ==
    /\ \E s \in Strategies \ {current_strategy} : current_strategy' = s
    /\ lastRoute' = NoRoute
    /\ rrRun' = NoRun
    /\ UNCHANGED <<lbNow, health_status, current_connections, sessions, next_session,
                   round_robin_index, lbMetrics, inflight>>
    /\ UNCHANGED <<scalerVars, probeVars>>

\* half a session timeout passes
LbTick ==
    /\ lbNow < MaxTicks * (session_timeout \div 2)
    /\ lbNow' = lbNow + (session_timeout \div 2)
    /\ lastRoute' = NoRoute
    /\ UNCHANGED <<health_status, current_connections, sessions, next_session,
                   current_strategy, round_robin_index, lbMetrics, inflight, rrRun>>
    /\ UNCHANGED <<scalerVars, probeVars>>

(***************************************************************************)
(* perform_health_checks: every region, then every instance, one probe     *)
(* after the other in the order of self.regions and self.instances         *)
(***************************************************************************)
\* self.regions, in insertion order
RegionOrder == <<"us-east-1", "us-west-2">>
NumEntities == Len(RegionOrder) + NumInstances

\* HealthChecker.check_region_health, score in hundredths
RegionJitters == {-10, 0, 10}

RegionScore(overloaded, jitter) ==
    100 - (IF overloaded THEN 30 ELSE 0) + jitter

RegionProbeResults ==
    { StatusOf(RegionScore(overloaded, jitter)) :
        overloaded \in BOOLEAN, jitter \in RegionJitters }

\* what the probe that returned last read and drew
Reading(cpu, mem, overloaded, jitter) ==
    [cpu_utilization |-> cpu, memory_utilization |-> mem,
     overloaded |-> overloaded, jitter |-> jitter]

NoReading == Reading(0, 0, FALSE, 0)

\* state is "idle", "running", "returned" or "raised"; done counts the probes
\* of the cycle that returned; failed is the entity whose probe raised
ProbeCycle(state, done, failed, reading) ==
    [state |-> state, done |-> done, failed |-> failed, reading |-> reading]

EntityStatus(e) ==
    IF e <= Len(RegionOrder) THEN region_health[RegionOrder[e]]
    ELSE health_status[InstanceOrder[e - Len(RegionOrder)]]

\* perform_health_checks is called
PerformHealthChecks ==
    /\ probe.state # "running"
    /\ probe' = ProbeCycle("running", 0, None, NoReading)
    /\ lastRoute' = NoRoute
    /\ UNCHANGED <<region_health, lbNow, health_status, current_connections,
                   sessions, next_session, current_strategy, round_robin_index,
                   lbMetrics, inflight, rrRun>>
    /\ UNCHANGED scalerVars

\* every reading a region probe and an instance probe can make
RegionReadings ==
    { Reading(0, 0, overloaded, jitter) :
        overloaded \in BOOLEAN, jitter \in RegionJitters }

InstanceReadings ==
    { Reading(cpu, mem, FALSE, jitter) :
        cpu \in UtilLevels, mem \in UtilLevels, jitter \in Jitters }

\* the probe of entity e returns and writes the status its reading maps to
ProbeReturns(e, reading) ==
    /\ IF e <= Len(RegionOrder)
       THEN /\ region_health' =
                  [region_health EXCEPT ![RegionOrder[e]] =
                      StatusOf(RegionScore(reading.overloaded, reading.jitter))]
            /\ UNCHANGED health_status
       ELSE /\ health_status' =
                  [health_status EXCEPT ![InstanceOrder[e - Len(RegionOrder)]] =
                      StatusOf(InstanceScore(reading.cpu_utilization,
                                             reading.memory_utilization,
                                             reading.jitter))]
            /\ UNCHANGED region_health
    /\ probe' = ProbeCycle(IF e = NumEntities THEN "returned" ELSE "running",
                           e, None, reading)

\* the probe of entity e raises: neither check_region_health,
\* check_instance_health nor perform_health_checks has an except clause, so
\* the exception leaves perform_health_checks
ProbeRaises(e) ==
    /\ probe' = ProbeCycle("raised", probe.done, e, NoReading)
    /\ UNCHANGED <<region_health, health_status>>

\* the next await of the loops of perform_health_checks
ProbeNext ==
    /\ probe.state = "running"
    /\ LET e == probe.done + 1
       IN  \/ \E reading \in (IF e <= Len(RegionOrder) THEN RegionReadings
                               ELSE InstanceReadings) : ProbeReturns(e, reading)
           \/ ProbeRaises(e)
    /\ lastRoute' = NoRoute
    /\ UNCHANGED <<lbNow, current_connections, sessions, next_session,
                   current_strategy, round_robin_index, lbMetrics, inflight, rrRun>>
    /\ UNCHANGED scalerVars

ProbeInit ==
    /\ region_health = [r \in Regions |-> "healthy"]
    /\ probe = ProbeCycle("idle", 0, None, NoReading)

\* get_metrics: get_session_stats sweeps the session store before it counts
SweepDone == [NoRoute EXCEPT !.state = "swept"]

GetMetrics ==
    /\ sessions' = cleanup_expired_sessions(sessions, lbNow)
    /\ lastRoute' = SweepDone
    /\ UNCHANGED <<lbNow, health_status, current_connections, next_session,
                   current_strategy, round_robin_index, lbMetrics, inflight, rrRun>>
    /\ UNCHANGED <<scalerVars, probeVars>>

\* half a session timeout passes, up to one half more than LbTick allows
SweepTick ==
    /\ lbNow < (MaxTicks + 1) * (session_timeout \div 2)
    /\ lbNow' = lbNow + (session_timeout \div 2)
    /\ lastRoute' = NoRoute
    /\ UNCHANGED <<health_status, current_connections, sessions, next_session,
                   current_strategy, round_robin_index, lbMetrics, inflight, rrRun>>
    /\ UNCHANGED <<scalerVars, probeVars>>

LbInit ==
    /\ lbNow = 0
    /\ health_status = [i \in Instances |-> "healthy"]
    /\ current_connections = [i \in Instances |-> 0]
    /\ sessions = <<>>
    /\ next_session = 1
    /\ current_strategy = "session_aware"
    /\ round_robin_index = 0
    /\ lbMetrics = [total_requests |-> 0,
                    requests_per_region |-> [r \in Regions |-> 0],
                    average_latency |-> [num |-> 0, halvings |-> 0],
                    error_rate |-> 0]
    /\ inflight = [c \in Slots |-> IdleCall]
    /\ lastRoute = NoRoute
    /\ rrRun = NoRun

(***************************************************************************)
(* Specifications                                                          *)
(***************************************************************************)
Init == ScalerInit /\ LbInit /\ ProbeInit

NextScaler == EvaluateScaling \/ ScalerTick

SpecScaler == Init /\ [][NextScaler]_vars

NextWindow == EvaluateWindow \/ ScalerTick

\* a collector that has been sampling for a while
InitWindow == WindowInit /\ LbInit /\ ProbeInit

SpecWindow == InitWindow /\ [][NextWindow]_vars

NextLb == RouteCall \/ RouteComplete \/ CheckInstanceHealth \/ SetStrategy \/ LbTick

SpecLb == Init /\ [][NextLb]_vars

\* round robin only: the strategy is set once, every call comes without a
\* session id, and the fleet's health settles before the first call
UseRoundRobin ==
    /\ current_strategy # "round_robin"
    /\ current_strategy' = "round_robin"
    /\ lastRoute' = NoRoute
    /\ UNCHANGED <<lbNow, health_status, current_connections, sessions, next_session,
                   round_robin_index, lbMetrics, inflight, rrRun>>
    /\ UNCHANGED <<scalerVars, probeVars>>

RouteCallRoundRobin ==
    /\ current_strategy = "round_robin"
    /\ CallsBelow(MaxRRRoutes)
    /\ \E c \in Slots : FreeSlot(c) /\ Dispatch(c, None, 0)
    /\ UNCHANGED <<scalerVars, probeVars>>

ProbeBeforeTraffic ==
    /\ CallsBelow(1)
    /\ CheckInstanceHealth

NextRR == UseRoundRobin \/ RouteCallRoundRobin \/ RouteComplete \/ ProbeBeforeTraffic

SpecRR == Init /\ [][NextRR]_vars

\* the probe cycles alone
NextProbe == PerformHealthChecks \/ ProbeNext

SpecProbe == Init /\ [][NextProbe]_vars

\* routing with the session store swept by get_metrics
NextSweep == RouteCall \/ RouteComplete \/ GetMetrics \/ SweepTick

SpecSweep == Init /\ [][NextSweep]_vars

\* routing against a fleet that can lose every instance: once the bounded
\* traffic has drained, calls keep arriving for as long as no instance is
\* available
Drained == \A c \in Slots : inflight[c].state = "idle"

RouteCallOutage ==
    /\ \/ CallsBelow(MaxRoutes)
       \/ /\ Len(get_available_instances(health_status)) = 0
          /\ Drained
    /\ \E c \in Slots, req \in RequestSessions :
          /\ FreeSlot(c)
          /\ Dispatch(c, req, 0)
    /\ UNCHANGED <<scalerVars, probeVars>>

NextOutage ==
    UseRoundRobin \/ RouteCallOutage \/ RouteComplete \/ CheckInstanceHealth

SpecOutage == Init /\ [][NextOutage]_vars

\* routing whose caller may cancel a call in flight
NextCancel == RouteCall \/ RouteComplete \/ RouteCancel \/ ProbeBeforeTraffic

SpecCancel == Init /\ [][NextCancel]_vars

(***************************************************************************)
(* Properties of the autoscaler                                            *)
(***************************************************************************)

\* C1: after every evaluate_scaling call min_replicas <= current_replicas <=
\* max_replicas, and every returned decision has its target_replicas within
\* the same bounds.
C1_ReplicaBounds ==
    /\ min_replicas <= current_replicas
    /\ current_replicas <= max_replicas
    /\ evalOutcome = "returned" =>
          /\ min_replicas <= decision.target_replicas
          /\ decision.target_replicas <= max_replicas

\* a scale-up whose unclamped target (ten times the replicas) exceeds the maximum
C1_Witness ==
    /\ evalOutcome = "returned"
    /\ decision.action = "scale_up"
    /\ decision.metrics.stt_latency_ms = 10 * max_latency_ms
    /\ 10 * decision.current_replicas > max_replicas
    /\ decision.target_replicas = max_replicas

\* the last call came after a scale-up, before the cooldown had elapsed since
\* it, with a sample that has a field above its scale-up threshold
SecondCallInCooldown ==
    /\ evalOutcome # "none"
    /\ evalPre.actions >= 1
    /\ scaling_history[evalPre.actions].action = "scale_up"
    /\ evalPre.now - evalPre.last_scale_time < scale_cooldown_minutes
    /\ Len(UpTriggers(current_metrics)) > 0

\* C2: a second scale-up sample evaluated before the cooldown has elapsed since
\* the first scale action returns a maintain decision whose target_replicas is
\* the unchanged current_replicas.
C2_CooldownMaintain ==
    SecondCallInCooldown =>
        /\ evalOutcome = "returned"
        /\ decision.action = "maintain"
        /\ decision.target_replicas = evalPre.current_replicas
        /\ current_replicas = evalPre.current_replicas

\* the last call started with the cooldown elapsed, below max_replicas, and
\* its sample has a field above its scale-up threshold
ScaleUpDue ==
    /\ evalOutcome # "none"
    /\ evalPre.now - evalPre.last_scale_time >= scale_cooldown_minutes
    /\ evalPre.current_replicas < max_replicas
    /\ Len(UpTriggers(current_metrics)) > 0

\* C8: with the cooldown elapsed, current_replicas < max_replicas and a field
\* above its scale-up threshold, evaluate_scaling returns scale_up with
\* pre-call current_replicas < target_replicas <= max_replicas.
C8_ScaleUpWhenTriggered ==
    ScaleUpDue =>
        /\ evalOutcome = "returned"
        /\ decision.action = "scale_up"
        /\ decision.target_replicas > evalPre.current_replicas
        /\ decision.target_replicas <= max_replicas

\* the scenario cpu_utilization=95, concurrent_calls=60 from two replicas
C8_Witness ==
    /\ ScaleUpDue
    /\ current_metrics.cpu_utilization = 95
    /\ current_metrics.concurrent_calls = 60
    /\ evalPre.current_replicas = min_replicas
    /\ decision.action = "scale_up"

\* C9: any two consecutive scaling actions in scaling_history are at least
\* scale_cooldown_minutes apart, whatever their directions, so
\* current_replicas never changes twice within one cooldown window.
C9_CooldownSpacing ==
    \A i \in 1..(Len(scaling_history) - 1) :
        scaling_history[i + 1].timestamp - scaling_history[i].timestamp
            >= scale_cooldown_minutes

\* a scale-up followed by a scale-down
C9_Witness ==
    /\ Len(scaling_history) >= 2
    /\ scaling_history[1].action = "scale_up"
    /\ scaling_history[2].action = "scale_down"

\* the last call started with the cooldown elapsed, and the one check its
\* sample could trigger is the one the replica bound skips
BoundSkip ==
    /\ evalOutcome # "none"
    /\ evalPre.now - evalPre.last_scale_time >= scale_cooldown_minutes
    /\ \/ /\ evalPre.current_replicas >= max_replicas
          /\ Len(DownTriggers(current_metrics)) = 0
       \/ /\ evalPre.current_replicas <= min_replicas
          /\ Len(UpTriggers(current_metrics)) = 0

\* C17: when a scaling check is skipped because of a replica bound
\* (current_replicas >= max_replicas for scale-up, current_replicas <=
\* min_replicas for scale-down) and the other direction does not trigger,
\* evaluate_scaling returns a maintain decision with target_replicas equal to
\* current_replicas, whatever the sample.
C17_BoundSkipMaintains ==
    BoundSkip =>
        /\ evalOutcome = "returned"
        /\ decision.action = "maintain"
        /\ decision.target_replicas = evalPre.current_replicas
        /\ current_replicas = evalPre.current_replicas

\* the last call started with the cooldown elapsed, strictly between the
\* replica bounds, on a sample with a field above its scale-up threshold and
\* a field below its scale-down threshold
BothDirectionsDue ==
    /\ evalOutcome # "none"
    /\ evalPre.now - evalPre.last_scale_time >= scale_cooldown_minutes
    /\ min_replicas < evalPre.current_replicas
    /\ evalPre.current_replicas < max_replicas
    /\ Len(UpTriggers(current_metrics)) > 0
    /\ Len(DownTriggers(current_metrics)) > 0

\* C18: scale-up takes priority: on such a sample evaluate_scaling returns
\* scale_up with a larger replica count, never scale_down.
C18_ScaleUpPriority ==
    BothDirectionsDue =>
        /\ evalOutcome = "returned"
        /\ decision.action = "scale_up"
        /\ current_replicas > evalPre.current_replicas

\* cpu above its scale-up threshold, memory below its scale-down threshold
C18_Witness ==
    /\ BothDirectionsDue
    /\ current_metrics.cpu_utilization > scale_up_thresholds.cpu_utilization
    /\ current_metrics.memory_utilization < scale_down_thresholds.memory_utilization
    /\ decision.action = "scale_up"

\* C19: every scale_down decision has target_replicas = current_replicas - 1
\* (the count before the call), however far below the thresholds the sample is.
C19_SingleStepDown ==
    /\ \A j \in 1..Len(scaling_history) :
          scaling_history[j].action = "scale_down" =>
              scaling_history[j].target_replicas =
                  scaling_history[j].current_replicas - 1
    /\ (evalOutcome = "returned" /\ decision.action = "scale_down") =>
          /\ decision.target_replicas = evalPre.current_replicas - 1
          /\ current_replicas = evalPre.current_replicas - 1

\* a scale-down from twice min_replicas on a sample with every field below
\* its scale-down threshold
C19_Witness ==
    /\ evalOutcome = "returned"
    /\ decision.action = "scale_down"
    /\ Len(DownTriggers(current_metrics)) = Len(MetricFields)
    /\ evalPre.current_replicas = 2 * min_replicas
    /\ current_replicas = 2 * min_replicas - 1

\* the metric/target pairs of the sample whose metric exceeds its target
Exceeding(m) ==
    { q \in { <<m.cpu_utilization, 70>>, <<m.memory_utilization, 80>>,
              <<m.concurrent_calls, 50>>, <<m.stt_latency_ms, 500>> } : q[1] > q[2] }

\* ceil(cur * max(ratios)) as the least count that is at least cur * metric /
\* target for every exceeding metric; cur + 1 when none exceeds
ExpectedScaleUp(cur, m) ==
    IF Exceeding(m) = {} THEN cur + 1
    ELSE CHOOSE n \in 1..(20 * cur) :
            /\ \A q \in Exceeding(m) : n * q[2] >= cur * q[1]
            /\ \E q \in Exceeding(m) : (n - 1) * q[2] < cur * q[1]

Clamp(n, lo, hi) == IF n < lo THEN lo ELSE IF n > hi THEN hi ELSE n

\* C20: on scale_up, target_replicas = clamp(ceil(current_replicas *
\* max(ratios)), min_replicas, max_replicas), the ratios being metric/target
\* of those among cpu, memory, concurrent calls and stt latency that exceed
\* their target; when none exceeds, target_replicas = current_replicas + 1.
C20_ScaleUpTarget ==
    /\ (evalOutcome = "returned" /\ decision.action = "scale_up") =>
          decision.target_replicas =
              Clamp(ExpectedScaleUp(evalPre.current_replicas, decision.metrics), 2, 20)
    /\ \A j \in 1..Len(scaling_history) :
          scaling_history[j].action = "scale_up" =>
              scaling_history[j].target_replicas =
                  Clamp(ExpectedScaleUp(scaling_history[j].current_replicas,
                                        scaling_history[j].metrics), 2, 20)

\* a scale-up by the stt latency ratio, then one that only tts latency and
\* the error rate trigger
C20_Witness ==
    /\ Len(scaling_history) = 2
    /\ scaling_history[1].action = "scale_up"
    /\ scaling_history[1].metrics.cpu_utilization = 95
    /\ scaling_history[1].target_replicas = 3
    /\ scaling_history[2].action = "scale_up"
    /\ Exceeding(scaling_history[2].metrics) = {}
    /\ scaling_history[2].target_replicas = 4

\* the step is one evaluate_scaling call
EvaluateStep == Len(arrived') = Len(arrived) + 1

\* C21: when evaluate_scaling returns scale_up or scale_down,
\* current_replicas becomes the decision's target_replicas, last_scale_time
\* becomes now and exactly one entry, the decision, is appended to
\* scaling_history with the earlier entries untouched; when it returns
\* maintain, all three are left unchanged.
C21_EvaluateEffect ==
    [][(EvaluateStep /\ evalOutcome' = "returned") =>
          IF decision'.action \in {"scale_up", "scale_down"}
          THEN /\ current_replicas' = decision'.target_replicas
               /\ last_scale_time' = asNow'
               /\ scaling_history' = Append(scaling_history, decision')
          ELSE /\ decision'.action = "maintain"
               /\ UNCHANGED <<current_replicas, last_scale_time, scaling_history>>
      ]_vars

\* a scale-up followed, a cooldown later, by a maintain decision
C21_Witness ==
    /\ evalOutcome = "returned"
    /\ decision.action = "maintain"
    /\ Len(scaling_history) = 1
    /\ scaling_history[1].action = "scale_up"
    /\ current_replicas = scaling_history[1].target_replicas
    /\ last_scale_time = scaling_history[1].timestamp + 1

\* the last n elements of seq
LastN(seq, n) ==
    IF Len(seq) <= n THEN seq ELSE SubSeq(seq, Len(seq) - n + 1, Len(seq))

\* C22: after any sequence of evaluate_scaling calls, whatever they return,
\* metrics_history holds at most max_history_size samples and equals the
\* most recent min(count, max_history_size) samples in arrival order.
C22_MetricsWindow ==
    /\ Len(metrics_history) <= max_history_size
    /\ \E k \in PrefillSizes :
          metrics_history = LastN(Prefill(k) \o arrived, max_history_size)

\* a full history that evicted its oldest samples, the last for a call that
\* returned maintain
C22_Witness ==
    /\ Len(metrics_history) = max_history_size
    /\ Len(arrived) >= 2
    /\ evalOutcome = "returned"
    /\ decision.action = "maintain"
    /\ metrics_history[max_history_size] = arrived[Len(arrived)]
    /\ metrics_history[max_history_size - 1] = arrived[Len(arrived) - 1]

\* the decision as a function of the sample and the replica count alone
ExpectedAction(m) ==
    IF \E f \in DOMAIN m : m[f] > scale_up_thresholds[f] THEN "scale_up"
    ELSE IF \E f \in DOMAIN m : m[f] < scale_down_thresholds[f] THEN "scale_down"
    ELSE "maintain"

ExpectedTarget(cur, m) ==
    CASE ExpectedAction(m) = "scale_up" -> Clamp(ExpectedScaleUp(cur, m), 2, 20)
      [] ExpectedAction(m) = "scale_down" -> cur - 1
      [] OTHER -> cur

\* C27: the action and target_replicas evaluate_scaling returns are a
\* function of the current sample, current_replicas, last_scale_time and now
\* only: whatever metrics_history and scaling_history hold, a call that
\* returns (the cooldown has elapsed) returns the action the sample's
\* threshold crossings give and the target computed from the sample and
\* current_replicas.
C27_SingleSampleDeterminism ==
    evalOutcome = "returned" =>
        /\ decision.action = ExpectedAction(current_metrics)
        /\ decision.target_replicas =
               ExpectedTarget(evalPre.current_replicas, current_metrics)

\* a scale-up on the first sample above a threshold, right after a sample
\* that crossed none, with an earlier scaling action on record
C27_Witness ==
    /\ evalOutcome = "returned"
    /\ decision.action = "scale_up"
    /\ Len(arrived) >= 3
    /\ Len(UpTriggers(arrived[Len(arrived) - 1])) = 0
    /\ Len(scaling_history) = 2

(***************************************************************************)
(* Properties of the load balancer                                         *)
(***************************************************************************)

\* a session-aware call carried a session that was live when it selected, and
\* the instance the session was created on was healthy at that moment
AffinityDue ==
    /\ lastRoute.state = "dispatched"
    /\ lastRoute.strategy_used = "session_aware"
    /\ lastRoute.request_session_id # None
    /\ lastRoute.seen.origin_instance # None
    /\ lastRoute.seen.origin_health = "healthy"

C4_FailoverRebinds ==
    /\ (/\ lastRoute.state = "dispatched"
        /\ lastRoute.failover) =>
            /\ lastRoute.instance_id # lastRoute.seen.bound_instance
            /\ lastRoute.seen.selected_health \in {"healthy", "degraded"}
    /\ (/\ lastRoute.state = "completed"
        /\ lastRoute.failover) =>
            lastRoute.binding_after = lastRoute.instance_id

\* C5: once every route_call in flight has completed, each instance's
\* current_connections is back at the value it had before the calls.
C5_ConnectionAccounting ==
    (\A c \in Slots : inflight[c].state = "idle") =>
        \A i \in Instances : current_connections[i] = 0

\* the last of two calls that were in flight on the same instance has completed
C5_Witness ==
    /\ lastRoute.state = "completed"
    /\ lastRoute.overlapped
    /\ \A c \in Slots : inflight[c].state = "idle"
    /\ \A i \in Instances : current_connections[i] = 0

\* a route_call that found no healthy or degraded instance
NoneAvailable ==
    /\ lastRoute.state \in {"dispatched", "failed", "raised"}
    /\ lastRoute.seen.available = <<>>

\* C6: when no instance is healthy or degraded, route_call returns the failure
\* "No healthy instances available" as a value and raises nothing.
C6_NoInstanceFailure ==
    NoneAvailable =>
        /\ lastRoute.state = "failed"
        /\ ~lastRoute.success
        /\ lastRoute.error = "No healthy instances available"

\* the failure under a strategy other than the default one
C6_Witness ==
    /\ NoneAvailable
    /\ lastRoute.state = "failed"
    /\ lastRoute.strategy_used = "weighted_round_robin"

Pos(seq, x) == CHOOSE j \in 1..Len(seq) : seq[j] = x

Occurrences(seq, from, to, x) == Cardinality({j \in from..to : seq[j] = x})

\* C7: consecutive round-robin calls without session ids over one available
\* list of k instances visit it in cyclic order, so any k*n of them in a row
\* select each instance exactly n times.
C7_RoundRobinFairness ==
    LET A == rrRun.available
        P == rrRun.picks
        k == Len(A)
    IN  /\ \A j \in 1..(Len(P) - 1) : Pos(A, P[j + 1]) = (Pos(A, P[j]) % k) + 1
        /\ \A n \in 1..Len(P) : \A from \in 1..Len(P) :
              from + k * n - 1 <= Len(P) =>
                  \A j \in 1..k : Occurrences(P, from, from + k * n - 1, A[j]) = n

\* three available instances, six calls
C7_Witness ==
    /\ Len(rrRun.available) = 3
    /\ Len(rrRun.picks) = 6

\* C10: the instance a route selects is healthy or degraded at the moment of
\* selection, under every strategy.
C10_HealthGating ==
    lastRoute.state = "dispatched" =>
        lastRoute.seen.selected_health \in {"healthy", "degraded"}

\* a bound session whose instance is unhealthy is served by a degraded one
C10_Witness ==
    /\ lastRoute.state = "dispatched"
    /\ lastRoute.strategy_used = "session_aware"
    /\ lastRoute.seen.bound_health = "unhealthy"
    /\ lastRoute.seen.selected_health = "degraded"

\* C11: in every reachable state, however route dispatches, completions and
\* health probes interleave, current_connections >= 0 for every instance.
C11_ConnectionsNonNegative ==
    \A i \in Instances : current_connections[i] >= 0

\* a call completed on a fleet with a probed-down instance while another call
\* still holds its connection
C11_Witness ==
    /\ lastRoute.state = "completed"
    /\ \E i \in Instances : current_connections[i] = 1
    /\ \E i \in Instances : health_status[i] # "healthy"

\* C12: a route_call whose request carries no session id and that succeeds,
\* under any strategy, creates a new session: the session id it returns is a
\* fresh key of the store and is bound to the instance id it returns.
C12_NewSessionBound ==
    /\ (/\ lastRoute.state = "dispatched"
        /\ lastRoute.request_session_id = None) =>
            /\ lastRoute.session_id = next_session - 1
            /\ lastRoute.session_id \in DOMAIN sessions
            /\ sessions[lastRoute.session_id].instance_id = lastRoute.instance_id
    /\ (/\ lastRoute.state = "completed"
        /\ lastRoute.lookup = "absent") =>
            /\ lastRoute.success
            /\ lastRoute.binding_after = lastRoute.instance_id

\* a call without session id returned under a strategy that ignores sessions
C12_Witness ==
    /\ lastRoute.state = "completed"
    /\ lastRoute.lookup = "absent"
    /\ lastRoute.strategy_used = "weighted_round_robin"
    /\ lastRoute.session_id \in DOMAIN sessions
    /\ lastRoute.binding_after = lastRoute.instance_id

\* C13: a route_call whose request carries a session id that the store does
\* not know, or whose session has timed out, succeeds, and when it has
\* returned the store resolves the returned session id to the instance the
\* call selected.
C13_SessionNotFoundCreates ==
    (/\ lastRoute.state = "completed"
     /\ lastRoute.lookup \in {"unknown", "expired"}) =>
        /\ lastRoute.success
        /\ lastRoute.binding_after = lastRoute.instance_id

\* C15: get_session on a session idle for longer than session_timeout returns
\* nothing and removes the session, so the store no longer holds the entry
\* after the call.
C15_LazyEviction ==
    (/\ lastRoute.state = "dispatched"
     /\ lastRoute.strategy_used = "session_aware"
     /\ lastRoute.lookup = "expired") =>
        /\ lastRoute.seen.bound_instance = None
        /\ lastRoute.request_session_id \notin DOMAIN sessions

\* the route_call coroutines that hold a connection of instance i
Holding(i) ==
    {c \in Slots : inflight[c].state = "processing" /\ inflight[c].instance_id = i}

\* C14: when a route_call fails or is aborted after it incremented the
\* selected instance's current_connections, the increment is released before
\* the error surfaces: once the error has left route_call every instance
\* counts exactly the calls still in flight on it.
C14_GuaranteedRelease ==
    lastRoute.state \in {"failed", "raised"} =>
        \A i \in Instances : current_connections[i] = Cardinality(Holding(i))

\* C16: a probe failure on one entity forces that entity's status to
\* unhealthy and does not abort the cycle: perform_health_checks goes on to
\* probe every remaining region and instance.
C16_ProbeFailureContained ==
    /\ probe.state # "raised"
    /\ probe.failed # None => EntityStatus(probe.failed) = "unhealthy"
    /\ probe.state = "returned" => probe.done = NumEntities

\* C23: a session-aware route whose session is bound to an instance of the
\* available list, healthy or degraded, selects that instance; the
\* least-connections fallback is used only when the bound instance is not in
\* the available list.
C23_DegradedReuse ==
    (/\ lastRoute.state = "dispatched"
     /\ lastRoute.strategy_used = "session_aware"
     /\ lastRoute.lookup = "live"
     /\ InSeq(lastRoute.seen.bound_instance, lastRoute.seen.available)) =>
        lastRoute.instance_id = lastRoute.seen.bound_instance

\* C24: cleanup_expired_sessions applies the expiry test of get_session: it
\* removes a session if and only if get_session would report it as not
\* found, also when the session has been idle for exactly session_timeout,
\* so every session left by a sweep is retrievable.
C24_SweepMatchesGet ==
    [][lastRoute'.state = "swept" =>
          /\ \A s \in DOMAIN sessions :
                s \notin DOMAIN sessions' <=> ~SessionLive(sessions, s, lbNow)
          /\ \A s \in DOMAIN sessions' : SessionLive(sessions', s, lbNow')
      ]_vars

\* C30: once a session has been idle for longer than session_timeout nothing
\* makes it resolvable again: the update_session a route_call performs after
\* it fell back to another instance does not refresh it, and get_session
\* still reports it as not found.
C30_ExpiryFinal ==
    (/\ lastRoute.state = "completed"
     /\ lastRoute.lookup = "expired") =>
        ~SessionLive(sessions, lastRoute.session_id, lbNow)

\* the route_call that just returned, or was just dispatched, holds or held
\* a connection of an instance that is unhealthy now
OnUnhealthy == /\ lastRoute.instance_id # None
               /\ health_status[lastRoute.instance_id] = "unhealthy"

\* C25: when a probe marks the selected instance unhealthy while a route_call
\* is in flight, the call still returns success and releases its connection,
\* and no later route_call selects the instance while it stays unhealthy.
C25_ProbeRaceTolerated ==
    /\ (lastRoute.state \in {"completed", "failed", "raised"} /\ OnUnhealthy) =>
          /\ lastRoute.state = "completed"
          /\ lastRoute.success
          /\ current_connections[lastRoute.instance_id] =
                 Cardinality(Holding(lastRoute.instance_id))
    /\ lastRoute.state = "dispatched" => ~OnUnhealthy

\* a call returned from an instance that a probe marked unhealthy after the
\* call had selected it
C25_Witness ==
    /\ lastRoute.state = "completed"
    /\ OnUnhealthy
    /\ lastRoute.success
    /\ current_connections[lastRoute.instance_id] = 0

\* the step dispatches a route_call under the round-robin strategy
RoundRobinDispatch ==
    /\ lastRoute'.state = "dispatched"
    /\ lastRoute'.strategy_used = "round_robin"
    /\ lbMetrics'.total_requests = lbMetrics.total_requests + 1

\* C26: the read of round_robin_index and its increment are one atomic step
\* of each round-robin route_call: every call consumes the cursor value the
\* previous one left plus nothing, advances it by one, and indexes its own
\* available list within bounds (cursor modulo the list's length), also
\* when calls are in flight concurrently and the list changed in between.
C26_CursorAtomicity ==
    [][RoundRobinDispatch =>
          LET A == lastRoute'.seen.available
          IN  /\ round_robin_index' = round_robin_index + 1
              /\ (round_robin_index % Len(A)) + 1 \in 1..Len(A)
              /\ lastRoute'.instance_id = A[(round_robin_index % Len(A)) + 1]
      ]_vars

\* the second of two concurrent round-robin calls, dispatched on a shorter
\* available list than the first
C26_Witness ==
    /\ lastRoute.state = "dispatched"
    /\ lastRoute.strategy_used = "round_robin"
    /\ round_robin_index = 2
    /\ Len(lastRoute.seen.available) = 1
    /\ \A c \in Slots : inflight[c].state = "processing"
    /\ \E c \in Slots : inflight[c].instance_id # lastRoute.instance_id

\* the last probe that returned was the probe of an instance
InstanceProbed ==
    /\ probe.state \in {"running", "returned"}
    /\ probe.done > Len(RegionOrder)

\* C28: after a probe of an instance its status is healthy if score > 0.8,
\* degraded if 0.5 < score <= 0.8 and unhealthy otherwise, where score is 1.0
\* minus 0.4 for cpu > 90 or 0.2 for 80 < cpu <= 90, minus 0.3 for memory >
\* 90 or 0.1 for 80 < memory <= 90, plus a jitter within [-0.1, 0.1]
\* (hundredths here), whatever the jitter drawn.
C28_InstanceHealthMapping ==
    InstanceProbed =>
        LET r == probe.reading
            cpuPenalty == IF r.cpu_utilization > 90 THEN 40
                          ELSE IF r.cpu_utilization > 80 /\ r.cpu_utilization <= 90
                          THEN 20 ELSE 0
            memPenalty == IF r.memory_utilization > 90 THEN 30
                          ELSE IF r.memory_utilization > 80 /\ r.memory_utilization <= 90
                          THEN 10 ELSE 0
            score == 100 - cpuPenalty - memPenalty + r.jitter
        IN  /\ r.jitter \in -10..10
            /\ score > 80 => EntityStatus(probe.done) = "healthy"
            /\ (score > 50 /\ score <= 80) => EntityStatus(probe.done) = "degraded"
            /\ score <= 50 => EntityStatus(probe.done) = "unhealthy"

\* cpu between 80 and 90 and no jitter: the score is exactly 0.8, degraded
C28_Witness ==
    /\ InstanceProbed
    /\ probe.reading.cpu_utilization = 85
    /\ probe.reading.memory_utilization = 50
    /\ probe.reading.jitter = 0
    /\ EntityStatus(probe.done) = "degraded"

NoHealthyInstances == "No healthy instances available"

\* C29: a route_call that fails with "No healthy instances available" leaves
\* every instance's current_connections, total_requests,
\* requests_per_region, round_robin_index and the session store unchanged
\* and sets error_rate to min(1.0, error_rate + 0.01) (hundredths here), so
\* error_rate is at most 1.0 after it, however many calls failed before.
C29_FailureFrame ==
    [][(lastRoute'.state = "failed" /\ lastRoute'.error = NoHealthyInstances) =>
          /\ current_connections' = current_connections
          /\ lbMetrics'.total_requests = lbMetrics.total_requests
          /\ lbMetrics'.requests_per_region = lbMetrics.requests_per_region
          /\ round_robin_index' = round_robin_index
          /\ sessions' = sessions
          /\ next_session' = next_session
          /\ lbMetrics'.error_rate =
                IF lbMetrics.error_rate + 1 > 100 THEN 100
                ELSE lbMetrics.error_rate + 1
          /\ lbMetrics'.error_rate <= 100]_vars

\* the call that fails once error_rate has been at 1.0, with sessions in the
\* store and the cursor advanced
C29_Witness ==
    /\ lastRoute.state = "failed"
    /\ lastRoute.error = NoHealthyInstances
    /\ lbMetrics.error_rate = 100
    /\ lbMetrics.total_requests = MaxRoutes
    /\ round_robin_index > 0
    /\ DOMAIN sessions # {}

====
